---- MODULE Spec2Model ----
(***************************************************************************)
(* A model of pyglet's Clock (src/pyglet/clock.py): the every-tick list,   *)
(* the timed list, the scheduling methods, unschedule and tick().          *)
(*                                                                         *)
(* Time is counted in whole units of 1/80 s, so the code's 0.2 s is 16     *)
(* units and its 0.05 s is 4 units.  Intervals are multiples of 16 units,  *)
(* which keeps every point the soft scheduler probes (interval/2 ..        *)
(* interval/16) a whole number; its tolerances (dt/4) are compared by      *)
(* cross-multiplication, so nothing is rounded.                            *)
(*                                                                         *)
(* Item objects live in the sequence `items`; the two lists of the clock   *)
(* and the copy a tick iterates hold indices into it, as the Python lists  *)
(* hold references to the same objects.                                    *)
(*                                                                         *)
(* A tick in progress is a position (pc, snap, idx): between two steps of  *)
(* a tick a host callback has just returned.  While pc # "idle" only the   *)
(* tick's own steps are enabled, as the clock is single-threaded.          *)
(***************************************************************************)
EXTENDS Integers, Sequences, FiniteSets, TLC

\* ------------------------------------------------------------ constants

\* Python's None in a timestamp field (below every time the model reaches).
None == -1000

\* The no-op placed on cancelled items.
Dummy == "_dummy_schedule_func"

\* Host callbacks.
Funcs == {"a", "b"}

\* 0.2 s: a schedule call made later than this after the last tick is
\* anchored at the live time.
ClusterGap == 16

\* 0.05 s: an interval item that fires less than this late keeps its phase.
SmallMiss == 4

\* The soft scheduler gives up once its subdivision count exceeds this.
MaxDivs == 16

\* Clock.window_size as set by __init__.
WindowSize == 0

\* ------------------------------------------------------------ bounds

\* Items created in one run, the largest value of the time source, and the
\* number of ticks of one run.
MaxItems == 2
MaxTime == 34
MaxTicks == 2

\* Values of the time source when the clock is constructed.
StartTimes == {0}
\* Amounts by which the time source advances.
Steps == {16, 17}
\* interval arguments of schedule_interval and of schedule_interval_soft.
Intervals == {0, 16}
SoftIntervals == {16}
\* delay arguments (schedule_once).
Delays == {0, 16}

\* Runs at a fixed step: every tick comes FixedStep after the one before.
FixedItems == 3
FixedTicks == 6
FixedTime == 48
FixedSteps == {8, 12}
FixedIntervals == {16, 32}

\* Runs of a clock constructed before the time source reads 0.
EarlyItems == 2
EarlyTicks == 2
EarlyTime == 17
EarlyStartTimes == {-16}

\* Runs of a host that only registers soft-interval items.
SoftItems == 17
SoftTicks == 1
SoftTime == 17

\* Runs of a host that also calls call_scheduled_functions itself.
ManualItems == 2
ManualTicks == 2
ManualTime == 17
ManualDts == {0}
ManualTimestamps == {0, 16}

\* Runs of a host with two clocks.
TwoItems == 2
TwoTicks == 2
TwoTime == 17

\* Runs with a callback that registers itself again on every invocation.
ReplItems == 8
GrowItems == 16
GrowFirst == 1
GrowTicks == 3
GrowTime == 50
ReplFirst == 2
ReplTicks == 2
ReplTime == 34

\* ------------------------------------------------------------ state

VARIABLES
    now,                        \* the value self.time() returns
    next_ts,                    \* Clock.next_ts: the time of construction
    last_ts,                    \* Clock.last_ts: None, or the last update_time
    times,                      \* Clock.times
    cumulative_time,            \* Clock.cumulative_time
    items,                      \* the item objects ever created
    schedule_items,             \* Clock._schedule_items
    schedule_interval_items,    \* Clock._schedule_interval_items
    pc,                         \* "idle", or the loop of the tick in progress
    snap,                       \* the list copy the loop iterates
    idx,                        \* the loop's position in snap
    need_resort,                \* call_scheduled_functions' need_resort
    delta_t,                    \* tick()'s delta_t: what the last tick returns
    result,                     \* call_scheduled_functions' result
    hist,                       \* history, per item: how it was created, its invocations,
                                \*   and who called the unschedule that matched it
    ticks,                      \* history: number of ticks begun
    log,                        \* history: the invocations of the tick
    every0,                     \* history: _schedule_items when the tick began
    timed0,                     \* history: _schedule_interval_items when the tick began
    outcome,                    \* history: how the last call of tick() or of
                                \*   call_scheduled_functions ended ("returned", "raised"
                                \*   for a TypeError, "Depreciated" for tick(poll=True)'s
                                \*   exception), until the host moves on
    clock2                      \* a second Clock instance: its next_ts, last_ts, times,
                                \*   cumulative_time and its two lists

vars == <<now, next_ts, last_ts, times, cumulative_time, items, schedule_items,
          schedule_interval_items, pc, snap, idx, need_resort, delta_t, result,
          hist, ticks, log, every0, timed0, outcome, clock2>>

clockVars == <<next_ts, last_ts, times, cumulative_time>>
loopVars == <<pc, snap, idx, need_resort>>
\* What is known of the last tick (what it returned, and its history) until
\* the host moves on.
tickHist == <<delta_t, result, log, every0, timed0>>

\* ------------------------------------------------------------ helpers

Abs(x) == IF x < 0 THEN -x ELSE x

Range(s) == {s[i] : i \in 1..Len(s)}

\* [i for i in s if its[i].func is f], and the same with "is not".
RECURSIVE WithFunc(_, _, _)
WithFunc(its, s, f) ==
    IF s = <<>> THEN <<>>
    ELSE (IF its[Head(s)].func = f THEN <<Head(s)>> ELSE <<>>)
            \o WithFunc(its, Tail(s), f)

RECURSIVE WithoutFunc(_, _, _)
WithoutFunc(its, s, f) ==
    IF s = <<>> THEN <<>>
    ELSE (IF its[Head(s)].func # f THEN <<Head(s)>> ELSE <<>>)
            \o WithoutFunc(its, Tail(s), f)

\* The clock's scheduling state as one value.
Q == [items |-> items, every |-> schedule_items, timed |-> schedule_interval_items]

\* _ScheduledItem (interval, last_ts, next_ts unused) and _ScheduledIntervalItem.
ScheduledItem(func) ==
    [func |-> func, interval |-> 0, last_ts |-> None, next_ts |-> None, timed |-> FALSE]

ScheduledIntervalItem(func, interval, lts, nts) ==
    [func |-> func, interval |-> interval, last_ts |-> lts, next_ts |-> nts, timed |-> TRUE]

\* Clock.__init__ with the time source reading t: the instance's own fields,
\* its lists new and empty.
Constructed(t) ==
    [next_ts |-> t, last_ts |-> None, times |-> <<>>, cumulative_time |-> 0,
     every |-> <<>>, timed |-> <<>>]

\* ------------------------------------------------------------ scheduling

\* Faulty variant: a function already in the every-tick list is not added again.
ScheduleUnique(q, func) ==
    IF \E k \in 1..Len(q.every) : q.items[q.every[k]].func = func
    THEN q
    ELSE [q EXCEPT !.items = Append(@, ScheduledItem(func)),
                   !.every = Append(@, Len(q.items) + 1)]

\* schedule: append a new item to the every-tick list.
schedule(q, func) ==
    [q EXCEPT !.items = Append(@, ScheduledItem(func)),
              !.every = Append(@, Len(q.items) + 1)]

\* Faulty variant: _schedule_item always appends.
InsertAtEnd(q, nts, i) == Len(q.timed) + 1

\* The index _schedule_item inserts at: before the first item that is due
\* later; Len + 1 (append) when there is none.
RECURSIVE InsertAt(_, _, _)
InsertAt(q, nts, i) ==
    IF i > Len(q.timed) THEN i
    ELSE LET other == q.items[q.timed[i]] IN
         IF other.next_ts # None /\ other.next_ts > nts THEN i
         ELSE InsertAt(q, nts, i + 1)

InsertSeq(s, i, x) == SubSeq(s, 1, i - 1) \o <<x>> \o SubSeq(s, i, Len(s))

\* Faulty variant: the item object is made but put in no list.
ScheduleItemLost(q, func, lts, nts, interval) ==
    [q EXCEPT !.items = Append(@, ScheduledIntervalItem(func, interval, lts, nts))]

schedule_item(q, func, lts, nts, interval) ==
    LET id == Len(q.items) + 1 IN
    [q EXCEPT !.items = Append(@, ScheduledIntervalItem(func, interval, lts, nts)),
              !.timed = InsertSeq(@, InsertAt(q, nts, 1), id)]

\* "last_ts = self.last_ts or self.next_ts; ts = self.time();
\*  if ts - last_ts > 0.2: last_ts = ts"
Basis ==
    LET l == IF last_ts = None \/ last_ts = 0 THEN next_ts ELSE last_ts IN
    IF now - l > ClusterGap THEN now ELSE l

schedule_once(q, func, delay) ==
    schedule_item(q, func, Basis, Basis + delay, 0)

schedule_interval(q, func, interval) ==
    schedule_item(q, func, Basis, Basis + interval, interval)

\* Faulty variant: no search, the point one interval after the basis.
NextAtInterval(q, lts, interval) == lts + interval

\* taken(ts, e) of _get_soft_next_ts with e = interval / (4 * divs), scanning
\* the timed list from position i.
RECURSIVE taken(_, _, _, _, _)
taken(q, ts, interval, divs, i) ==
    IF i > Len(q.timed) THEN FALSE
    ELSE LET n == q.items[q.timed[i]].next_ts IN
         IF n = None THEN taken(q, ts, interval, divs, i + 1)
         ELSE IF 4 * divs * Abs(n - ts) <= interval THEN TRUE
         ELSE IF 4 * divs * (n - ts) > interval THEN FALSE
         ELSE taken(q, ts, interval, divs, i + 1)

\* Faulty variant: at the guard the loop returns next_ts as the pass that
\* follows would have reset it, the basis.
RECURSIVE ProbeReset(_, _, _, _, _)
ProbeReset(q, lts, interval, divs, i) ==
    LET dt == interval \div divs IN
    IF i > divs - 1
    THEN IF 2 * divs > MaxDivs THEN [next_ts |-> lts, divs |-> 2 * divs, probes |-> 0]
         ELSE ProbeReset(q, lts, interval, 2 * divs, 1)
    ELSE IF ~taken(q, lts + i * dt, interval, divs, 1)
         THEN [next_ts |-> lts + i * dt, divs |-> divs, probes |-> 1]
         ELSE [ProbeReset(q, lts, interval, divs, i + 1) EXCEPT !.probes = @ + 1]

\* The while loop of _get_soft_next_ts at subdivision count divs, about to
\* probe point i of divs - 1 (dt = interval / divs): the value it returns,
\* the value of divs at the return, and the candidates it has put to taken().
RECURSIVE probe(_, _, _, _, _)
probe(q, lts, interval, divs, i) ==
    LET dt == interval \div divs IN
    IF i > divs - 1
    THEN IF 2 * divs > MaxDivs THEN [next_ts |-> lts + (divs - 1) * dt, divs |-> 2 * divs, probes |-> 0]
         ELSE probe(q, lts, interval, 2 * divs, 1)
    ELSE IF ~taken(q, lts + i * dt, interval, divs, 1)
         THEN [next_ts |-> lts + i * dt, divs |-> divs, probes |-> 1]
         ELSE [probe(q, lts, interval, divs, i + 1) EXCEPT !.probes = @ + 1]

\* Faulty variant: the search starts at the subdivisions, the point one
\* interval after the basis is never tried.
SearchSubdivisions(q, lts, interval) == probe(q, lts, interval, 2, 1)

\* The body of _get_soft_next_ts: its return value, the subdivision count
\* it returned at (1 for the first candidate, above MaxDivs at the guard)
\* and the number of candidates it has put to taken().
soft_search(q, lts, interval) ==
    IF ~taken(q, lts + interval, interval, 1, 1)
    THEN [next_ts |-> lts + interval, divs |-> 1, probes |-> 1]
    ELSE [probe(q, lts, interval, 2, 1) EXCEPT !.probes = @ + 1]

get_soft_next_ts(q, lts, interval) == soft_search(q, lts, interval).next_ts

\* Faulty variant: last_ts is left at the basis, whatever point the search
\* returned.
ScheduleSoftFromBasis(q, func, interval) ==
    LET nts == get_soft_next_ts(q, Basis, interval) IN
    schedule_item(q, func, Basis, nts, interval)

schedule_interval_soft(q, func, interval) ==
    LET nts == get_soft_next_ts(q, Basis, interval) IN
    schedule_item(q, func, nts - interval, nts, interval)

\* ------------------------------------------------------------ get_sleep_time

Min(a, b) == IF a <= b THEN a ELSE b
Max(a, b) == IF a >= b THEN a ELSE b

\* What a call returns: a value (None when the function returns nothing), or
\* the TypeError that arithmetic on None raises.
Returns(v) == [raised |-> FALSE, value |-> v]
Raises == [raised |-> TRUE, value |-> None]

\* get_sleep_time: the construction time when there are every-tick items,
\* the first item of the timed list, the time source.
get_sleep_time(q) ==
    LET first == q.items[q.timed[1]].next_ts IN
    IF q.every # <<>>
    THEN IF q.timed # <<>>
         THEN IF first = None THEN Raises
              ELSE Returns(Max(Min(next_ts, first) - now, 0))
         ELSE Returns(Max(next_ts - now, 0))
    ELSE IF q.timed # <<>>
         THEN IF first = None THEN Raises ELSE Returns(Max(first - now, 0))
         ELSE Returns(None)

\* ------------------------------------------------------------ unschedule

\* Faulty variant: the search stops at the oldest matching item.
MatchedOldest(q, func) ==
    LET m == {i \in Range(q.every) \cup Range(q.timed) : q.items[i].func = func}
    IN {i \in m : \A j \in m : i <= j}

\* Faulty variant: every item object holding func is matched, whichever list
\* holds it.
MatchedAnywhere(q, func) ==
    {i \in 1..Len(q.items) : q.items[i].func = func}

\* The items a call unschedule(func) matches.
Matched(q, func) ==
    {i \in Range(q.every) \cup Range(q.timed) : q.items[i].func = func}

\* item.func = _dummy_schedule_func for the items in S.
RECURSIVE SetDummy(_, _)
SetDummy(its, S) ==
    IF S = {} THEN its
    ELSE LET i == CHOOSE x \in S : TRUE IN
         SetDummy([its EXCEPT ![i] = [@ EXCEPT !.func = Dummy]], S \ {i})

\* Faulty variants of the halves of unschedule, against which the properties
\* of unschedule are tried: one that stops at the first matching item, one
\* that does not compare the function.
NeutralizeFirst(q, func) ==
    LET m == WithFunc(q.items, q.every \o q.timed, func) IN
    IF m = <<>> THEN q
    ELSE [q EXCEPT !.items = SetDummy(@, {Head(m)})]

NeutralizeAll(q, func) ==
    [q EXCEPT !.items = SetDummy(@, Range(q.every) \cup Range(q.timed))]

\* The first half of unschedule: matching items of both lists get the no-op.
Neutralize(q, func) ==
    [q EXCEPT !.items = SetDummy(@, Matched(q, func))]

\* Faulty variant: the timed list is not filtered.
RemoveDummiesEveryOnly(q) ==
    [q EXCEPT !.every = WithoutFunc(q.items, @, Dummy)]

\* The second half: both lists keep the items whose func is not the no-op.
RemoveDummies(q) ==
    [q EXCEPT !.every = WithoutFunc(q.items, @, Dummy),
              !.timed = WithoutFunc(q.items, @, Dummy)]

\* Faulty variant: the lists are filtered by function, the items left as
\* they are (so a copy of a list still holds the host function).
UnscheduleFilterOnly(q, func) ==
    [q EXCEPT !.every = WithoutFunc(q.items, @, func),
              !.timed = WithoutFunc(q.items, @, func)]

unschedule(q, func) == RemoveDummies(Neutralize(q, func))

\* ------------------------------------------------------------ calls on the clock

\* What a caller (the host between ticks, or a callback during one) asks of
\* the clock: one of the scheduling methods or unschedule, or nothing.
NoAct == [op |-> "none", f |-> "-", arg |-> 0]

Act(op, f, arg) == [op |-> op, f |-> f, arg |-> arg]

Creators ==
    {Act("schedule", f, 0) : f \in Funcs}
    \cup {Act("schedule_once", f, d) : f \in Funcs, d \in Delays}
    \cup {Act("schedule_interval", f, i) : f \in Funcs, i \in Intervals}
    \cup {Act("schedule_interval_soft", f, i) : f \in Funcs, i \in SoftIntervals}

Cancels == {Act("unschedule", f, 0) : f \in Funcs}

\* The calls that create an item.
Creates(act) == act.op \notin {"unschedule", "none"}

Exec(q, act) ==
    CASE act.op = "schedule" -> schedule(q, act.f)
      [] act.op = "schedule_once" -> schedule_once(q, act.f, act.arg)
      [] act.op = "schedule_interval" -> schedule_interval(q, act.f, act.arg)
      [] act.op = "schedule_interval_soft" -> schedule_interval_soft(q, act.f, act.arg)
      [] act.op = "unschedule" -> unschedule(q, act.f)
      [] OTHER -> q

\* A run's limits: the items it may create, its ticks, its last time, and
\* the calls open to each host callback when it is invoked.
Limits(maxItems, maxTicks, maxTime, cb) ==
    [items |-> maxItems, ticks |-> maxTicks, time |-> maxTime, cb |-> cb]

\* Callbacks free to make any one call, or none.
General ==
    Limits(MaxItems, MaxTicks, MaxTime,
           [f \in Funcs |-> {NoAct} \cup Cancels \cup Creators])

\* Callbacks that make no call on the clock.
Quiet == [f \in Funcs |-> {NoAct}]

Fixed == Limits(FixedItems, FixedTicks, FixedTime, Quiet)

\* Callback "a" calls schedule(a) on every invocation; "b" makes no call.
Replicating == [f \in Funcs |-> IF f = "a" THEN {Act("schedule", "a", 0)} ELSE {NoAct}]

Repl == Limits(ReplItems, ReplTicks, ReplTime, Replicating)

\* Every callback of a run has at least one way to return.
WellFormed(P) == \A f \in Funcs : Cardinality(P.cb[f]) > 0

\* The calls open to callback func now: creating an item only while the
\* run's item limit allows it.
CallbackActs(P, q, func) ==
    IF func = Dummy THEN {NoAct}
    ELSE {a \in P.cb[func] : Creates(a) => Len(q.items) < P.items}

\* How an item came to be, for the history: the number of ticks begun, the
\* place of the call, the function registered, the next_ts it was given and
\* the basis the scheduling call computed; then, for an interval item, the
\* time of its last firing (prev) and whether its next_ts now comes from
\* _get_soft_next_ts (soft).
Born(q2, id) ==
    [calls |-> 0, tick |-> ticks, phase |-> pc, func |-> q2.items[id].func,
     next0 |-> q2.items[id].next_ts,
     basis |-> IF q2.items[id].timed THEN Basis ELSE None,
     prev |-> None, soft |-> FALSE,
     by |-> "", ctick |-> 0, late |-> FALSE]

\* The timed loop, at time ts, re-arms item `it` through _get_soft_next_ts:
\* "if item.next_ts <= ts" and not "ts - item.next_ts < 0.05".
Resynced(it, ts) ==
    /\ it.timed /\ it.interval # 0
    /\ it.last_ts + it.interval <= ts
    /\ ts - (it.last_ts + it.interval) >= SmallMiss

\* History: the items unschedule has matched (when, and called by whom:
\* "host", the item's own callback, or another's), and those invoked with a
\* host function after that.
cancelled ==
    {[id |-> i, tick |-> hist[i].ctick, by |-> hist[i].by]
        : i \in {j \in 1..Len(hist) : hist[j].by # ""}}

late == {i \in 1..Len(hist) : hist[i].late}

\* History: the items in S were matched by an unschedule called by `by`.
RECURSIVE Mark(_, _, _)
Mark(h, S, by) ==
    IF S = {} THEN h
    ELSE LET i == CHOOSE x \in S : TRUE IN
         Mark([h EXCEPT ![i] =
                 [@ EXCEPT !.by = IF by = 0 THEN "host"
                                 ELSE IF by = i THEN "self" ELSE "other",
                           !.ctick = ticks]],
              S \ {i}, by)

\* The clock's lists and items become q2.  act is the call that was made on
\* q (by `by`: "host", or the item whose callback made it); item `fired`
\* (0: none) was invoked with a host function.
SetQ(q, q2, act, by, fired) ==
    /\ items' = q2.items
    /\ schedule_items' = q2.every
    /\ schedule_interval_items' = q2.timed
    /\ hist' =
         LET h1 == IF fired = 0 THEN hist
                   ELSE [hist EXCEPT ![fired] =
                            [@ EXCEPT !.calls = @ + 1, !.late = @ \/ hist[fired].by # "",
                                      !.prev = IF q.items[fired].timed
                                                  /\ q.items[fired].interval # 0
                                               THEN last_ts ELSE @,
                                      !.soft = Resynced(q.items[fired], last_ts)]]
             h2 == IF act.op = "unschedule" THEN Mark(h1, Matched(q, act.f), by) ELSE h1
         IN IF Len(q2.items) > Len(h2)
            THEN Append(h2, [Born(q2, Len(q2.items)) EXCEPT
                                !.soft = act.op = "schedule_interval_soft"])
            ELSE h2

\* ------------------------------------------------------------ the host, between ticks

\* The host moves on: the last tick's return values and history are dropped.
Forget ==
    /\ delta_t' = 0
    /\ result' = FALSE
    /\ log' = <<>>
    /\ every0' = <<>>
    /\ timed0' = <<>>
    /\ outcome' = "none"

\* Faulty variant: the call invokes a queued item of its function at once.
HostCallInvoking(P, act) ==
    /\ pc = "idle"
    /\ ticks < P.ticks
    /\ Creates(act) => Len(items) < P.items
    /\ LET m == Matched(Q, act.f) IN
       SetQ(Q, Exec(Q, act), act, 0, IF m = {} THEN 0 ELSE CHOOSE i \in m : TRUE)
    /\ Forget
    /\ UNCHANGED <<now, clock2, clockVars, loopVars, ticks>>

\* A call of the host between two ticks (none once the run's ticks are used up).
HostCall(P, act) ==
    /\ pc = "idle"
    /\ ticks < P.ticks
    /\ Creates(act) => Len(items) < P.items
    /\ SetQ(Q, Exec(Q, act), act, 0, 0)
    /\ Forget
    /\ UNCHANGED <<now, clock2, clockVars, loopVars, ticks>>

\* The time source moves on between two calls of the host.  (Callbacks are
\* taken to return at once: the time source stands still during a tick.)
Elapse(P, h) ==
    /\ pc = "idle"
    /\ ticks < P.ticks
    /\ now + h <= P.time
    /\ now' = now + h
    /\ Forget
    /\ UNCHANGED <<clock2, clockVars, items, schedule_items, schedule_interval_items,
                   loopVars, hist, ticks>>

\* ------------------------------------------------------------ get_interval

RECURSIVE Sum(_)
Sum(s) == IF s = <<>> THEN 0 ELSE Head(s) + Sum(Tail(s))

\* A quotient, kept exact as numerator and denominator.
Ratio(num, den) == [num |-> num, den |-> den]

\* get_interval(): the arithmetic mean of the dt values self.times holds, 0
\* when it holds none.
get_interval ==
    IF times = <<>> THEN Ratio(0, 1) ELSE Ratio(Sum(times), Len(times))

\* ------------------------------------------------------------ a second clock

\* The host turns to its other Clock instance: the calls that follow are
\* made on it.  (Both instances read the same time source; their items are
\* objects of one heap.)
SwitchClock(P) ==
    /\ pc = "idle"
    /\ ticks < P.ticks
    /\ next_ts' = clock2.next_ts
    /\ last_ts' = clock2.last_ts
    /\ times' = clock2.times
    /\ cumulative_time' = clock2.cumulative_time
    /\ schedule_items' = clock2.every
    /\ schedule_interval_items' = clock2.timed
    /\ clock2' = [next_ts |-> next_ts, last_ts |-> last_ts, times |-> times,
                 cumulative_time |-> cumulative_time,
                 every |-> schedule_items, timed |-> schedule_interval_items]
    /\ Forget
    /\ UNCHANGED <<now, items, loopVars, hist, ticks>>

\* ------------------------------------------------------------ set_time

\* set_time(timestamp): the recorded time becomes timestamp; what is returned
\* is the difference to the time recorded before, 0 when there was none.
set_time(timestamp) ==
    [last_ts |-> timestamp,
     delta_t |-> IF last_ts = None THEN 0 ELSE timestamp - last_ts]

\* The host calls set_time(timestamp) between two calls of the clock.
SetTime(P, timestamp) ==
    /\ pc = "idle"
    /\ ticks < P.ticks
    /\ last_ts' = set_time(timestamp).last_ts
    /\ delta_t' = set_time(timestamp).delta_t
    /\ result' = FALSE
    /\ log' = <<>>
    /\ every0' = <<>>
    /\ timed0' = <<>>
    /\ outcome' = "none"
    /\ UNCHANGED <<now, clock2, next_ts, times, cumulative_time, items, schedule_items,
                   schedule_interval_items, loopVars, hist, ticks>>

\* ------------------------------------------------------------ tick

\* Faulty variant: the first call measures from the clock's construction.
UpdateDeltaFromStart == IF last_ts = None THEN now - next_ts ELSE now - last_ts

\* update_time: the delta it returns and the history it keeps.
UpdateDelta == IF last_ts = None THEN 0 ELSE now - last_ts

UpdateTimes ==
    IF last_ts = None THEN times
    ELSE LET t == <<UpdateDelta>> \o times IN
         IF Len(t) > WindowSize THEN SubSeq(t, 1, Len(t) - 1) ELSE t

\* Faulty variant: the dt that leaves the history stays in the total.
UpdateCumulativeKept == cumulative_time + UpdateDelta

UpdateCumulative ==
    IF last_ts = None THEN cumulative_time + UpdateDelta
    ELSE LET t == <<UpdateDelta>> \o times IN
         (IF Len(t) > WindowSize THEN cumulative_time - t[Len(t)] ELSE cumulative_time)
            + UpdateDelta

\* tick(): update_time, then call_scheduled_functions up to its first loop.
Begin(P) ==
    /\ pc = "idle"
    /\ ticks < P.ticks
    /\ delta_t' = UpdateDelta
    /\ times' = UpdateTimes
    /\ cumulative_time' = UpdateCumulative
    /\ last_ts' = now
    /\ result' = FALSE
    /\ snap' = schedule_items
    /\ idx' = 1
    /\ pc' = "every"
    /\ log' = <<>>
    /\ ticks' = ticks + 1
    /\ every0' = schedule_items
    /\ timed0' = schedule_interval_items
    /\ outcome' = "none"
    /\ UNCHANGED <<now, clock2, next_ts, items, schedule_items, schedule_interval_items,
                   need_resort, hist>>

\* tick(poll=True): "if poll: raise Exception('Depreciated')", before
\* update_time and call_scheduled_functions; nothing is returned.
TickPoll(P) ==
    /\ pc = "idle"
    /\ ticks < P.ticks
    /\ delta_t' = 0
    /\ result' = FALSE
    /\ log' = <<>>
    /\ every0' = <<>>
    /\ timed0' = <<>>
    /\ outcome' = "Depreciated"
    /\ UNCHANGED <<now, clock2, clockVars, items, schedule_items, schedule_interval_items,
                   loopVars, hist, ticks>>

\* call_scheduled_functions(dt) called by the host itself, up to its first
\* loop: the recorded time is left as it is.
CallBegin(P, dt) ==
    /\ pc = "idle"
    /\ ticks < P.ticks
    /\ delta_t' = dt
    /\ result' = FALSE
    /\ snap' = schedule_items
    /\ idx' = 1
    /\ pc' = "every"
    /\ log' = <<>>
    /\ ticks' = ticks + 1
    /\ every0' = schedule_items
    /\ timed0' = schedule_interval_items
    /\ outcome' = "none"
    /\ UNCHANGED <<now, clock2, clockVars, items, schedule_items, schedule_interval_items,
                   need_resort, hist>>

\* One invocation: the item, the function object called, the dt passed.
Event(id, func, dt) == [id |-> id, func |-> func, dt |-> dt]

\* The item invoked with a host function (0 when the no-op was called).
Fired(id, func) == IF func = Dummy THEN 0 ELSE id

\* Faulty variant: the loop looks at the same position again.
SamePass(i) == i

\* The loop's next position after a pass.
NextPass(i) == i + 1

\* Faulty variant: the timestamp is passed, not the delta.
EveryDtStamp == last_ts

\* The dt the first loop passes: call_scheduled_functions' argument, which
\* tick() sets to update_time's delta.
EveryDt == delta_t

\* Faulty variants: the loops walk the clock's lists, not copies of them.
EveryWalkLive == schedule_items
TimedWalkLive == schedule_interval_items

\* The list each loop walks: the copy made when the loop began.
EveryWalk == snap
TimedWalk == snap

\* One pass of "for item in list(self._schedule_items)": item.func(dt).
Every(P) ==
    /\ pc = "every"
    /\ idx <= Len(EveryWalk)
    /\ LET id == EveryWalk[idx]
           func == items[id].func
       IN /\ \E act \in CallbackActs(P, Q, func) :
                SetQ(Q, Exec(Q, act), act, id, Fired(id, func))
          /\ log' = Append(log, Event(id, func, EveryDt))
    /\ result' = TRUE
    /\ idx' = NextPass(idx)
    /\ UNCHANGED <<now, clock2, clockVars, pc, snap, need_resort, delta_t, ticks,
                   every0, timed0, outcome>>

\* The list the second loop iterates: list(self._schedule_interval_items).
TimedCopy == schedule_interval_items

\* The every-tick loop is over: copy the timed list for the second loop.
EveryOver ==
    /\ pc = "every"
    /\ idx > Len(EveryWalk)
    /\ need_resort' = FALSE
    /\ snap' = TimedCopy
    /\ idx' = 1
    /\ pc' = "timed"
    /\ UNCHANGED <<now, clock2, clockVars, items, schedule_items, schedule_interval_items,
                   hist, ticks, tickHist, outcome>>

SetItem(q, id, lts, nts) ==
    [q EXCEPT !.items[id] = [@ EXCEPT !.last_ts = lts, !.next_ts = nts]]

\* Faulty variant: the period is kept whatever the time, without the
\* correction of a next_ts that is not in the future.
RearmInPhase(q, id, ts) ==
    LET it == q.items[id] IN
    IF it.interval # 0
    THEN SetItem(q, id, ts, it.last_ts + it.interval)
    ELSE SetItem(q, id, it.last_ts, None)

\* Faulty variant: the next period always starts at the time of the tick.
RearmFromNow(q, id, ts) ==
    LET it == q.items[id] IN
    IF it.interval # 0
    THEN SetItem(q, id, ts, ts + it.interval)
    ELSE SetItem(q, id, it.last_ts, None)

\* Faulty variant: after a large miss last_ts is put one interval after
\* next_ts, not before it.
RearmFakeAhead(q, id, ts) ==
    LET it == q.items[id]
        tentative == it.last_ts + it.interval
        q1 == SetItem(q, id, ts, tentative)
    IN IF it.interval # 0
       THEN IF tentative <= ts
            THEN IF ts - tentative < SmallMiss
                 THEN SetItem(q1, id, ts, ts + it.interval)
                 ELSE LET soft == get_soft_next_ts(q1, ts, it.interval) IN
                      SetItem(q1, id, soft + it.interval, soft)
            ELSE q1
       ELSE SetItem(q, id, it.last_ts, None)

\* Faulty variant: an interval item is finished by its first firing, like a
\* one-shot.
RearmNever(q, id, ts) == SetItem(q, id, q.items[id].last_ts, None)

\* Faulty variant: a fired one-shot keeps its next_ts.
RearmKeepsOneShot(q, id, ts) ==
    LET it == q.items[id]
        tentative == it.last_ts + it.interval
        q1 == SetItem(q, id, ts, tentative)
    IN IF it.interval # 0
       THEN IF tentative <= ts
            THEN IF ts - tentative < SmallMiss
                 THEN SetItem(q1, id, ts, ts + it.interval)
                 ELSE LET soft == get_soft_next_ts(q1, ts, it.interval) IN
                      SetItem(q1, id, soft - it.interval, soft)
            ELSE q1
       ELSE q

\* What the timed loop does to an item after its callback returned.
Rearm(q, id, ts) ==
    LET it == q.items[id]
        tentative == it.last_ts + it.interval
        q1 == SetItem(q, id, ts, tentative)
    IN IF it.interval # 0
       THEN IF tentative <= ts
            THEN IF ts - tentative < SmallMiss
                 THEN SetItem(q1, id, ts, ts + it.interval)
                 ELSE LET soft == get_soft_next_ts(q1, ts, it.interval) IN
                      SetItem(q1, id, soft - it.interval, soft)
            ELSE q1
       ELSE SetItem(q, id, it.last_ts, None)

\* "if item.next_ts > ts" with ts = self.last_ts = None (no update_time yet):
\* a number is not comparable with None, the comparison raises TypeError.
TimedRaises ==
    /\ idx <= Len(TimedWalk)
    /\ last_ts = None

\* Faulty variant: the timed loop stops after its first pass.
TimedLoopOverAfterOne ==
    \/ idx > 1
    \/ idx > Len(TimedWalk)
    \/ /\ idx <= Len(TimedWalk)
       /\ last_ts # None
       /\ items[TimedWalk[idx]].next_ts > last_ts

\* Faulty variant: the timed loop stops at the end of its copy only.
TimedLoopOverAtEnd == idx > Len(TimedWalk)

\* The timed loop stops at the end of its copy or at the first item not due.
TimedLoopOver ==
    \/ idx > Len(TimedWalk)
    \/ /\ idx <= Len(TimedWalk)
       /\ last_ts # None
       /\ items[TimedWalk[idx]].next_ts > last_ts

\* Faulty variant: the timed loop passes the frame's dt.
TimedDtOfFrame(id) == delta_t

\* The dt the second loop passes: "ts - item.last_ts".
TimedDt(id) == last_ts - items[id].last_ts

\* One pass of "for item in list(self._schedule_interval_items)".
Timed(P) ==
    /\ pc = "timed"
    /\ ~TimedLoopOver
    /\ ~TimedRaises
    /\ LET id == TimedWalk[idx]
           func == items[id].func
           dt == TimedDt(id)
       IN /\ \E act \in CallbackActs(P, Q, func) :
                SetQ(Q, Rearm(Exec(Q, act), id, last_ts), act, id, Fired(id, func))
          /\ log' = Append(log, Event(id, func, dt))
          /\ need_resort' = (need_resort \/ items[id].interval # 0)
    /\ result' = TRUE
    /\ idx' = NextPass(idx)
    /\ UNCHANGED <<now, clock2, clockVars, pc, snap, delta_t, ticks, every0, timed0,
                   outcome>>

\* list.sort(key=next_ts), stable: the place of s[k] in the sorted list is
\* one more than the number of items with a smaller next_ts, or with the same
\* next_ts and standing before it.
Rank(its, s, k) ==
    1 + Cardinality({j \in 1..Len(s) :
            \/ its[s[j]].next_ts < its[s[k]].next_ts
            \/ its[s[j]].next_ts = its[s[k]].next_ts /\ j < k})

\* The sorted list from place p on.
RECURSIVE Ranked(_, _, _)
Ranked(its, s, p) ==
    IF p > Len(s) THEN <<>>
    ELSE <<s[CHOOSE k \in 1..Len(s) : Rank(its, s, k) = p]>> \o Ranked(its, s, p + 1)

SortByNextTs(its, s) == Ranked(its, s, 1)

\* [item for item in s if item.next_ts is not None]
RECURSIVE Unfinished(_, _)
Unfinished(its, s) ==
    IF s = <<>> THEN <<>>
    ELSE (IF its[Head(s)].next_ts # None THEN <<Head(s)>> ELSE <<>>)
            \o Unfinished(its, Tail(s))

\* Faulty variant: finished one-shots are not removed.
FinishedKeep(q, resort) ==
    IF resort THEN SortByNextTs(q.items, q.timed) ELSE q.timed

\* Faulty variant: the list is filtered but never sorted again.
FinishedUnsorted(q, resort) == Unfinished(q.items, q.timed)

\* "Remove finished one-shots", then the resort.
Finished(q, resort) ==
    LET kept == Unfinished(q.items, q.timed) IN
    IF resort THEN SortByNextTs(q.items, kept) ELSE kept

\* The end of call_scheduled_functions and of tick(): its locals are gone.
TimedOver ==
    /\ pc = "timed"
    /\ TimedLoopOver
    /\ schedule_interval_items' = Finished(Q, need_resort)
    /\ pc' = "idle"
    /\ snap' = <<>>
    /\ idx' = 1
    /\ need_resort' = FALSE
    /\ outcome' = "returned"
    /\ UNCHANGED <<now, clock2, clockVars, items, schedule_items, hist,
                   ticks, tickHist>>

\* The TypeError leaves call_scheduled_functions: its locals are gone, the
\* lists stay as the loops left them, nothing is returned.
TimedRaise ==
    /\ pc = "timed"
    /\ TimedRaises
    /\ pc' = "idle"
    /\ snap' = <<>>
    /\ idx' = 1
    /\ need_resort' = FALSE
    /\ outcome' = "raised"
    /\ UNCHANGED <<now, clock2, clockVars, items, schedule_items, schedule_interval_items,
                   hist, ticks, tickHist>>

\* ------------------------------------------------------------ specification

\* A clock just constructed, the time source reading one of the values in S.
InitAt(S) ==
    /\ WellFormed(General) /\ WellFormed(Fixed) /\ WellFormed(Repl)
    /\ now \in S
    /\ next_ts = now
    /\ last_ts = None
    /\ times = <<>>
    /\ cumulative_time = 0
    /\ items = <<>>
    /\ schedule_items = <<>>
    /\ schedule_interval_items = <<>>
    /\ pc = "idle"
    /\ snap = <<>>
    /\ idx = 1
    /\ need_resort = FALSE
    /\ delta_t = 0
    /\ result = FALSE
    /\ hist = <<>>
    /\ ticks = 0
    /\ log = <<>>
    /\ every0 = <<>>
    /\ timed0 = <<>>
    /\ outcome = "none"
    /\ clock2 = Constructed(now)

Init == InitAt(StartTimes)

\* The host's calls and the steps of tick() in a general run.
Schedule(f) ==
    /\ f \in Funcs
    /\ HostCall(General, Act("schedule", f, 0))

ScheduleOnce(f, delay) ==
    /\ f \in Funcs
    /\ HostCall(General, Act("schedule_once", f, delay))

ScheduleInterval(f, interval) ==
    /\ f \in Funcs
    /\ HostCall(General, Act("schedule_interval", f, interval))

ScheduleIntervalSoft(f, interval) ==
    /\ f \in Funcs
    /\ HostCall(General, Act("schedule_interval_soft", f, interval))

Unschedule(f) ==
    /\ f \in Funcs
    /\ HostCall(General, Act("unschedule", f, 0))

Advance(h) ==
    /\ h \in Steps
    /\ Elapse(General, h)

TickBegin ==
    /\ pc = "idle"
    /\ Begin(General)

EveryStep ==
    /\ pc = "every"
    /\ Every(General)

EveryDone ==
    /\ pc = "every"
    /\ EveryOver

TimedStep ==
    /\ pc = "timed"
    /\ Timed(General)

TimedDone ==
    /\ pc = "timed"
    /\ TimedOver

Next ==
    \/ \E f \in Funcs : Schedule(f)
    \/ \E f \in Funcs, d \in Delays : ScheduleOnce(f, d)
    \/ \E f \in Funcs, i \in Intervals : ScheduleInterval(f, i)
    \/ \E f \in Funcs, i \in SoftIntervals : ScheduleIntervalSoft(f, i)
    \/ \E f \in Funcs : Unschedule(f)
    \/ \E h \in Steps : Advance(h)
    \/ TickBegin
    \/ EveryStep
    \/ EveryDone
    \/ TimedStep
    \/ TimedDone

Spec == Init /\ [][Next]_vars

\* ------------------------------------------------------------ runs at a fixed step

\* The step of the run: any before the time source first moves, then the
\* one it moved by (ticks counts the ticks begun since construction).
IsStep(h, n) == h \in FixedSteps /\ now = next_ts + h * n

\* schedule_interval right after construction.
FixedScheduleInterval(f, interval) ==
    /\ now = next_ts /\ ticks = 0
    /\ HostCall(Fixed, Act("schedule_interval", f, interval))

FixedAdvance(h) ==
    /\ items # <<>>
    /\ IsStep(h, ticks)
    /\ Elapse(Fixed, h)

FixedTickBegin ==
    /\ \E h \in FixedSteps : IsStep(h, ticks + 1)
    /\ Begin(Fixed)

FixedEveryDone ==
    /\ pc = "every"
    /\ EveryOver

FixedTimedStep ==
    /\ pc = "timed"
    /\ Timed(Fixed)

FixedTimedDone ==
    /\ pc = "timed"
    /\ TimedOver

NextFixed ==
    \/ \E f \in Funcs, i \in FixedIntervals : FixedScheduleInterval(f, i)
    \/ \E h \in FixedSteps : FixedAdvance(h)
    \/ FixedTickBegin
    \/ FixedEveryDone
    \/ FixedTimedStep
    \/ FixedTimedDone

SpecFixed == Init /\ [][NextFixed]_vars

\* ------------------------------------------------------------ runs of a clock constructed early

Early == Limits(EarlyItems, EarlyTicks, EarlyTime, General.cb)

InitEarly == InitAt(EarlyStartTimes)

EarlySchedule(f) ==
    /\ f \in Funcs
    /\ HostCall(Early, Act("schedule", f, 0))

EarlyScheduleOnce(f, delay) ==
    /\ f \in Funcs
    /\ HostCall(Early, Act("schedule_once", f, delay))

EarlyScheduleInterval(f, interval) ==
    /\ f \in Funcs
    /\ HostCall(Early, Act("schedule_interval", f, interval))

EarlyAdvance(h) ==
    /\ h \in Steps
    /\ Elapse(Early, h)

EarlyTickBegin ==
    /\ pc = "idle"
    /\ Begin(Early)

EarlyEveryStep ==
    /\ pc = "every"
    /\ Every(Early)

EarlyEveryDone ==
    /\ pc = "every"
    /\ EveryOver

EarlyTimedStep ==
    /\ pc = "timed"
    /\ Timed(Early)

EarlyTimedDone ==
    /\ pc = "timed"
    /\ TimedOver

NextEarly ==
    \/ \E f \in Funcs : EarlySchedule(f)
    \/ \E f \in Funcs, d \in Delays : EarlyScheduleOnce(f, d)
    \/ \E f \in Funcs, i \in Intervals : EarlyScheduleInterval(f, i)
    \/ \E h \in Steps : EarlyAdvance(h)
    \/ EarlyTickBegin
    \/ EarlyEveryStep
    \/ EarlyEveryDone
    \/ EarlyTimedStep
    \/ EarlyTimedDone

SpecEarly == InitEarly /\ [][NextEarly]_vars

\* ------------------------------------------------------------ runs of soft-interval registrations

Soft == Limits(SoftItems, SoftTicks, SoftTime, Quiet)

SoftScheduleIntervalSoft(f, interval) ==
    /\ f = "a"
    /\ HostCall(Soft, Act("schedule_interval_soft", f, interval))

SoftAdvance(h) ==
    /\ h \in Steps
    /\ Elapse(Soft, h)

NextSoft ==
    \/ \E f \in Funcs, i \in SoftIntervals : SoftScheduleIntervalSoft(f, i)
    \/ \E h \in Steps : SoftAdvance(h)

SpecSoft == Init /\ [][NextSoft]_vars

\* ------------------------------------------------------------ runs of a host driving the clock by hand

Manual == Limits(ManualItems, ManualTicks, ManualTime, General.cb)

ManualSchedule(f) ==
    /\ f \in Funcs
    /\ HostCall(Manual, Act("schedule", f, 0))

ManualScheduleOnce(f, delay) ==
    /\ f \in Funcs
    /\ HostCall(Manual, Act("schedule_once", f, delay))

ManualScheduleInterval(f, interval) ==
    /\ f \in Funcs
    /\ HostCall(Manual, Act("schedule_interval", f, interval))

ManualAdvance(h) ==
    /\ h \in Steps
    /\ Elapse(Manual, h)

ManualTickBegin ==
    /\ pc = "idle"
    /\ Begin(Manual)

ManualTickPoll ==
    /\ pc = "idle"
    /\ TickPoll(Manual)

ManualCall(dt) ==
    /\ dt \in ManualDts
    /\ CallBegin(Manual, dt)

ManualSetTime(timestamp) ==
    /\ timestamp \in ManualTimestamps
    /\ SetTime(Manual, timestamp)

ManualEveryStep ==
    /\ pc = "every"
    /\ Every(Manual)

ManualEveryDone ==
    /\ pc = "every"
    /\ EveryOver

ManualTimedStep ==
    /\ pc = "timed"
    /\ Timed(Manual)

ManualTimedRaise ==
    /\ pc = "timed"
    /\ TimedRaise

ManualTimedDone ==
    /\ pc = "timed"
    /\ TimedOver

NextManual ==
    \/ \E f \in Funcs : ManualSchedule(f)
    \/ \E f \in Funcs, d \in Delays : ManualScheduleOnce(f, d)
    \/ \E f \in Funcs, i \in Intervals : ManualScheduleInterval(f, i)
    \/ \E h \in Steps : ManualAdvance(h)
    \/ ManualTickBegin
    \/ ManualTickPoll
    \/ \E dt \in ManualDts : ManualCall(dt)
    \/ \E t \in ManualTimestamps : ManualSetTime(t)
    \/ ManualEveryStep
    \/ ManualEveryDone
    \/ ManualTimedStep
    \/ ManualTimedRaise
    \/ ManualTimedDone

SpecManual == Init /\ [][NextManual]_vars

\* ------------------------------------------------------------ runs of a host with two clocks

Two == Limits(TwoItems, TwoTicks, TwoTime, Quiet)

TwoSchedule(f) ==
    /\ f \in Funcs
    /\ HostCall(Two, Act("schedule", f, 0))

TwoScheduleInterval(f, interval) ==
    /\ f \in Funcs
    /\ HostCall(Two, Act("schedule_interval", f, interval))

TwoUnschedule(f) ==
    /\ f \in Funcs
    /\ HostCall(Two, Act("unschedule", f, 0))

TwoAdvance(h) ==
    /\ h \in Steps
    /\ Elapse(Two, h)

TwoSwitch ==
    /\ pc = "idle"
    /\ SwitchClock(Two)

TwoTickBegin ==
    /\ pc = "idle"
    /\ Begin(Two)

TwoEveryStep ==
    /\ pc = "every"
    /\ Every(Two)

TwoEveryDone ==
    /\ pc = "every"
    /\ EveryOver

TwoTimedStep ==
    /\ pc = "timed"
    /\ Timed(Two)

TwoTimedDone ==
    /\ pc = "timed"
    /\ TimedOver

NextTwo ==
    \/ \E f \in Funcs : TwoSchedule(f)
    \/ \E f \in Funcs, i \in Intervals : TwoScheduleInterval(f, i)
    \/ \E f \in Funcs : TwoUnschedule(f)
    \/ \E h \in Steps : TwoAdvance(h)
    \/ TwoSwitch
    \/ TwoTickBegin
    \/ TwoEveryStep
    \/ TwoEveryDone
    \/ TwoTimedStep
    \/ TwoTimedDone

SpecTwo == Init /\ [][NextTwo]_vars

\* ------------------------------------------------------------ runs with a replicating callback

\* The host registers up to ReplFirst items before the first tick: either
\* callback for every tick, the quiet one also as a one-shot.
ReplSchedule(f) ==
    /\ ticks = 0 /\ Len(items) < ReplFirst
    /\ HostCall(Repl, Act("schedule", f, 0))

ReplScheduleOnce(f, delay) ==
    /\ ticks = 0 /\ Len(items) < ReplFirst
    /\ Replicating[f] = {NoAct}
    /\ HostCall(Repl, Act("schedule_once", f, delay))

ReplAdvance(h) ==
    /\ h \in Steps
    /\ Elapse(Repl, h)

ReplTickBegin ==
    /\ pc = "idle"
    /\ Begin(Repl)

ReplEveryStep ==
    /\ pc = "every"
    /\ Every(Repl)

ReplEveryDone ==
    /\ pc = "every"
    /\ EveryOver

ReplTimedStep ==
    /\ pc = "timed"
    /\ Timed(Repl)

ReplTimedDone ==
    /\ pc = "timed"
    /\ TimedOver

NextRepl ==
    \/ \E f \in Funcs : ReplSchedule(f)
    \/ \E f \in Funcs, d \in Delays : ReplScheduleOnce(f, d)
    \/ \E h \in Steps : ReplAdvance(h)
    \/ ReplTickBegin
    \/ ReplEveryStep
    \/ ReplEveryDone
    \/ ReplTimedStep
    \/ ReplTimedDone

SpecRepl == Init /\ [][NextRepl]_vars

\* ------------------------------------------------------------ runs with a replicating interval callback

\* Callback "b" calls schedule_interval(b, interval) on every invocation, with
\* the interval the host registers it with; "a" makes no call.
Growing ==
    [f \in Funcs |->
        IF f = "b" THEN {Act("schedule_interval", "b", i) : i \in Intervals \ {0}} ELSE {NoAct}]

Grow == Limits(GrowItems, GrowTicks, GrowTime, Growing)

\* The host registers up to GrowFirst timed items before the first tick
\* (interval 0: a one-shot).
GrowScheduleInterval(f, interval) ==
    /\ ticks = 0 /\ Len(items) < GrowFirst
    /\ HostCall(Grow, Act("schedule_interval", f, interval))

GrowUnschedule(f) ==
    /\ items # <<>>
    /\ HostCall(Grow, Act("unschedule", f, 0))

GrowAdvance(h) ==
    /\ h \in Steps
    /\ Elapse(Grow, h)

GrowTickBegin ==
    /\ pc = "idle"
    /\ Begin(Grow)

GrowEveryDone ==
    /\ pc = "every"
    /\ EveryOver

GrowTimedStep ==
    /\ pc = "timed"
    /\ Timed(Grow)

GrowTimedDone ==
    /\ pc = "timed"
    /\ TimedOver

NextGrow ==
    \/ \E f \in Funcs, i \in Intervals : GrowScheduleInterval(f, i)
    \/ \E f \in Funcs : GrowUnschedule(f)
    \/ \E h \in Steps : GrowAdvance(h)
    \/ GrowTickBegin
    \/ GrowEveryDone
    \/ GrowTimedStep
    \/ GrowTimedDone

SpecGrow == Init /\ [][NextGrow]_vars

\* The host calls tick() again and again, up to the run's limit, and every
\* tick runs to its end.
GrowTick == GrowTickBegin \/ GrowEveryDone \/ GrowTimedStep \/ GrowTimedDone

SpecGrowFair == SpecGrow /\ WF_vars(GrowTick)

\* ------------------------------------------------------------ properties

IsCancelled(i) == \E c \in cancelled : c.id = i
CancelledBy(by) == {c \in cancelled : c.by = by}
InLists(i) == i \in Range(schedule_items) \cup Range(schedule_interval_items)
Ids == 1..Len(items)
IsEvery(i) == ~items[i].timed
IsOneShot(i) == items[i].timed /\ items[i].interval = 0
IsInterval(i) == items[i].timed /\ items[i].interval # 0

\* The invocations of item i in the tick's log.
RECURSIVE Invoked(_, _)
Invoked(l, i) ==
    IF l = <<>> THEN 0 ELSE (IF Head(l).id = i THEN 1 ELSE 0) + Invoked(Tail(l), i)

\* A tick has run to its end and the host has not moved on.
TickReturned == pc = "idle" /\ ticks > 0 /\ last_ts = now /\ (every0 # <<>> \/ timed0 # <<>> \/ log # <<>>)

\* A tick in progress always has a next step: its loop ends or makes a pass.
TickCanGoOn ==
    pc # "idle" =>
        ENABLED (EveryStep \/ EveryDone \/ TimedStep \/ TimedDone)

\* C1: the items a call of unschedule(f) by the host (between ticks) matched
\* are in neither list afterwards, and are never invoked again.
C1_HostUnscheduleRemovesAll ==
    \A c \in CancelledBy("host") : ~InLists(c.id) /\ c.id \notin late

\* C1's case: f was registered twice, once per tick and once timed, both were
\* unscheduled by the host, and a later tick ran at a time the timed one was due.
C1_Witness ==
    /\ pc = "idle"
    /\ \E c, d \in CancelledBy("host") :
        /\ IsEvery(c.id) /\ items[d.id].timed
        /\ hist[c.id].func = hist[d.id].func
        /\ c.tick < ticks /\ d.tick < ticks
        /\ last_ts >= hist[d.id].next0

\* C2: an item that another callback's unschedule matched during a tick is
\* not invoked afterwards, in that tick or later, and is in neither list; the
\* tick in progress can go on.
C2_UnscheduleOfCapturedItem ==
    /\ \A c \in CancelledBy("other") : c.id \notin late /\ ~InLists(c.id)
    /\ TickCanGoOn

\* C2's case: a due timed item was matched by another callback's unschedule
\* after the loop had copied the list; the loop reached it, called the no-op,
\* and the tick returned.
C2_Witness ==
    /\ pc = "idle"
    /\ \E c \in CancelledBy("other") :
        /\ items[c.id].timed
        /\ c.tick = ticks
        /\ \E k \in 1..Len(log) : log[k].id = c.id /\ log[k].func = Dummy

\* C3: an item whose own callback called unschedule on it is not invoked
\* again, is in neither list, and the tick in progress can go on.
C3_SelfUnschedule ==
    /\ \A c \in CancelledBy("self") :
        /\ c.id \notin late
        /\ ~InLists(c.id)
        /\ Invoked(log, c.id) <= 1
    /\ TickCanGoOn

\* C3's case: an interval item unscheduled itself in one tick, and a later
\* tick ran at a time the item, as the loop re-armed it, was due.
C3_Witness ==
    /\ pc = "idle"
    /\ \E c \in CancelledBy("self") :
        /\ IsInterval(c.id)
        /\ c.tick < ticks
        /\ hist[c.id].calls = 1
        /\ last_ts >= items[c.id].next_ts

\* What unschedule(f) must leave of a list: the items registered for others.
Others(s, f) == WithoutFunc(items, s, f)

\* C4: in every state, unschedule(f) keeps every item of another callback in
\* its list, in the same order, with its fields unchanged.
C4_UnscheduleFrame ==
    \A f \in Funcs :
        LET q2 == unschedule(Q, f) IN
        /\ q2.every = Others(schedule_items, f)
        /\ q2.timed = Others(schedule_interval_items, f)
        /\ Len(q2.items) = Len(items)
        /\ \A i \in Ids : items[i].func # f => q2.items[i] = items[i]

\* C4's case: unschedule has removed an item of one callback while items of
\* the other are in both lists, and a tick has since invoked them.
C4_Witness ==
    /\ cancelled # {}
    /\ \E i \in Range(schedule_interval_items) : hist[i].calls > 0 /\ ~IsCancelled(i)
    /\ \A c \in cancelled : c.tick < ticks

\* C5: once the first loop of a tick is over, every item that was in the
\* every-tick list when the tick began and that unschedule has not matched
\* was invoked exactly once, with the dt that the tick returns.
C5_EveryTickOncePerTick ==
    pc # "every" =>
        \A k \in 1..Len(every0) :
            LET i == every0[k] IN
            ~IsCancelled(i) =>
                /\ Invoked(log, i) = 1
                /\ \A e \in 1..Len(log) :
                    log[e].id = i => log[e].dt = delta_t /\ log[e].func = hist[i].func

\* C5's case: the second tick of an every-tick item returned, with a dt > 0.
C5_Witness ==
    /\ TickReturned
    /\ delta_t > 0
    /\ \E i \in Range(every0) : ~IsCancelled(i) /\ hist[i].calls = 2

C7_FixedStepCount ==
    (pc = "idle" /\ ticks >= 1 /\ last_ts = now) =>
        \A i \in Ids :
            IsInterval(i) => hist[i].calls = (now - next_ts) \div items[i].interval

\* C7's case: the third tick of a run at a fixed step has returned.
C7_Witness ==
    /\ pc = "idle" /\ ticks >= 3 /\ last_ts = now
    /\ \E i \in Ids : IsInterval(i) /\ hist[i].calls >= 1

\* C8: no timed item is invoked twice in one tick.
C8_TimedAtMostOncePerTick ==
    \A i \in Ids : items[i].timed => Invoked(log, i) <= 1

\* C8's case: a tick found an interval item two periods late and returned.
C8_Witness ==
    /\ pc = "idle"
    /\ \E e \in 1..Len(log) :
        LET i == log[e].id IN
        /\ IsInterval(i)
        /\ log[e].func # Dummy
        /\ last_ts - hist[i].next0 >= items[i].interval
        /\ hist[i].calls = 1

\* Timed items that a callback created while the timed loop was running.
BornInTimedLoop == {i \in Ids : items[i].timed /\ hist[i].phase = "timed" /\ ~IsCancelled(i)}

EveryOf(f) == WithFunc(items, schedule_items, f)
FirstOf(f) == {i \in Ids : IsEvery(i) /\ hist[i].func = f /\ hist[i].phase = "idle"}

\* C10: an every-tick item registered during a tick is not invoked in that
\* tick, and between ticks every every-tick item has been invoked once per
\* tick begun after its registration; the items of a callback that registers
\* itself on every invocation double with each tick.
C10_RegisteredMidTick ==
    /\ \A i \in Ids :
        (IsEvery(i) /\ ~IsCancelled(i)) =>
            /\ (hist[i].phase # "idle" /\ hist[i].tick = ticks) => hist[i].calls = 0
            /\ pc = "idle" => hist[i].calls = ticks - hist[i].tick
    /\ pc = "idle" =>
        \A f \in Funcs :
            Replicating[f] = {Act("schedule", f, 0)} =>
                Len(EveryOf(f)) = Cardinality(FirstOf(f)) * 2 ^ ticks

\* C10's case: one item of the replicating callback has become four in two
\* ticks.
C10_Witness ==
    /\ pc = "idle" /\ ticks = 2
    /\ \E f \in Funcs :
        /\ Replicating[f] = {Act("schedule", f, 0)}
        /\ Cardinality(FirstOf(f)) = 1
        /\ Len(EveryOf(f)) = 4

SmallestNextTs ==
    CHOOSE m \in {items[i].next_ts : i \in Range(schedule_interval_items)} :
        \A i \in Range(schedule_interval_items) : m <= items[i].next_ts

\* The states host code sees: between ticks, and during a tick whenever a
\* callback is about to be invoked.
HostRuns ==
    \/ pc = "idle"
    \/ pc = "every" /\ idx <= Len(EveryWalk)
    \/ pc = "timed" /\ ~TimedLoopOver

\* C12: wherever host code runs, get_sleep_time() returns None when nothing
\* is scheduled, 0 when there is an every-tick item, and otherwise
\* max(0, m - now) with m the smallest next_ts in the timed list.
C12_SleepTime ==
    LET r == get_sleep_time(Q) IN
    HostRuns =>
    /\ ~r.raised
    /\ (schedule_items = <<>> /\ schedule_interval_items = <<>>) => r.value = None
    /\ schedule_items # <<>> => r.value = 0
    /\ (schedule_items = <<>> /\ schedule_interval_items # <<>>) =>
            r.value = Max(0, SmallestNextTs - now)

\* C12's case: between ticks, with timed items only and the first not yet
\* due, get_sleep_time() returns a positive time.
C12_Witness ==
    /\ pc = "idle" /\ ticks > 0
    /\ schedule_items = <<>> /\ Len(schedule_interval_items) = 2
    /\ ~get_sleep_time(Q).raised
    /\ get_sleep_time(Q).value > 0

\* The basis C13 states for a call made now on a clock whose recorded time
\* is L: L when now - L <= 0.2 s, now otherwise.
StatedBasis == IF now - last_ts <= ClusterGap THEN last_ts ELSE now

\* The item a call has just appended to the item objects.
Newest(q) == q.items[Len(q.items)]

\* C13: wherever host code runs on a clock that has recorded a tick time L,
\* schedule_once(cb, d) and schedule_interval(cb, d) create an item with
\* last_ts = L and next_ts = L + d when now - L <= 0.2 s, and with
\* last_ts = now and next_ts = now + d otherwise.
C13_BasisOfTimedEntry ==
    (HostRuns /\ last_ts # None) =>
        \A f \in Funcs :
            /\ \A d \in Delays :
                LET it == Newest(schedule_once(Q, f, d)) IN
                it.last_ts = StatedBasis /\ it.next_ts = StatedBasis + d
            /\ \A d \in Intervals :
                LET it == Newest(schedule_interval(Q, f, d)) IN
                it.last_ts = StatedBasis /\ it.next_ts = StatedBasis + d

\* C13's case: a timed item has just been created between ticks, more than
\* 0.2 s after the last tick.
C13_Witness ==
    /\ pc = "idle" /\ ticks >= 1
    /\ next_ts < 0
    /\ now - last_ts > ClusterGap
    /\ \E i \in Ids :
        /\ items[i].timed /\ hist[i].tick = ticks /\ hist[i].phase = "idle"
        /\ items[i].last_ts = now

\* ------------------------------------------------------------ C14

\* The items registered so far are soft-interval items of one interval,
\* all registered from the same basis.
SameSoftBatch ==
    /\ pc = "idle" /\ Len(items) >= 1
    /\ \A i \in Ids :
        /\ IsInterval(i) /\ InLists(i)
        /\ items[i].interval = items[1].interval
        /\ hist[i].basis = hist[1].basis

\* The next_ts values are pairwise distinct and lie in [basis, basis + I].
SpreadOut ==
    /\ \A i, j \in Ids : i # j => items[i].next_ts # items[j].next_ts
    /\ \A i \in Ids :
        /\ items[i].next_ts >= hist[1].basis
        /\ items[i].next_ts <= hist[1].basis + items[1].interval

\* C14 (as stated): for every N, N successive schedule_interval_soft calls
\* with the same interval I and the same basis give N pairwise distinct
\* next_ts values, all within [basis, basis + I].
C14_SoftDistinctForEveryN == SameSoftBatch => SpreadOut

\* C14 (amended): for every N up to 16 (the subdivision count at which
\* the search gives up), N successive schedule_interval_soft calls with the
\* same interval I and the same basis give N pairwise distinct next_ts values,
\* all within [basis, basis + I].
C14_SoftDistinctUpTo16 ==
    (SameSoftBatch /\ Len(items) <= MaxDivs) => SpreadOut

\* Sixteen soft-interval items registered from one basis.
C14_Witness ==
    /\ SameSoftBatch
    /\ Len(items) = MaxDivs

\* ------------------------------------------------------------ C15

\* No item of either list holds f: f was never scheduled, or its items have
\* been unscheduled (or consumed).
Unknown(f) == Matched(Q, f) = {}

\* C15: unschedule(f) is idempotent and a no-op on unknown callbacks.  In
\* every state in which a caller can run, unschedule(f) twice gives what
\* unschedule(f) once gives, and for an f that no queued item holds it gives
\* the lists back as they are; a host call unschedule(f) for such an f leaves
\* the every-tick list, the timed list, the items and the recorded time
\* unchanged.
C15_UnscheduleIdempotent ==
    /\ [](HostRuns =>
            \A f \in Funcs :
                /\ unschedule(unschedule(Q, f), f) = unschedule(Q, f)
                /\ Unknown(f) => unschedule(Q, f) = Q)
    /\ [][\A f \in Funcs :
            (Unknown(f) /\ Unschedule(f)) =>
                UNCHANGED <<schedule_items, schedule_interval_items, items, last_ts>>]_vars

\* C15's case: the host unscheduled a callback after a tick; no list holds it
\* any more, while the lists still hold several items of the other callback.
C15_Witness ==
    /\ pc = "idle" /\ ticks >= 1
    /\ \E c \in CancelledBy("host") :
        /\ Unknown(hist[c.id].func)
        /\ \E g \in Funcs : Cardinality(Matched(Q, g)) >= 1

\* ------------------------------------------------------------ C16

\* A step that is a call of one of the scheduling methods or of unschedule,
\* made by the host between ticks.
SchedulingCall ==
    \/ \E f \in Funcs : Schedule(f) \/ Unschedule(f)
    \/ \E f \in Funcs, d \in Delays : ScheduleOnce(f, d)
    \/ \E f \in Funcs, i \in Intervals : ScheduleInterval(f, i)
    \/ \E f \in Funcs, i \in SoftIntervals : ScheduleIntervalSoft(f, i)

\* C16: no callback is invoked synchronously by schedule, schedule_once (even
\* with delay 0), schedule_interval, schedule_interval_soft or unschedule.  A
\* step that is such a call leaves every item's number of invocations as it
\* was and records no invocation, and the item it creates has not been
\* invoked; an item's number of invocations changes only in a pass of one of
\* the loops of call_scheduled_functions, by one, for the item the loop is at.
C16_NoSynchronousInvocation ==
    [][/\ SchedulingCall =>
            /\ \A i \in 1..Len(hist) : hist'[i].calls = hist[i].calls
            /\ \A i \in (Len(hist) + 1)..Len(hist') : hist'[i].calls = 0
            /\ log' = <<>>
       /\ \A i \in 1..Len(hist) :
            hist'[i].calls # hist[i].calls =>
                /\ pc \in {"every", "timed"}
                /\ idx <= Len(snap) /\ i = snap[idx]
                /\ hist'[i].calls = hist[i].calls + 1
                /\ Len(log') = Len(log) + 1]_vars

\* C16's case: after a tick that invoked a callback, the host registers a
\* one-shot with delay 0 for it, due at once, while an item of that callback
\* is still queued; the new item has not been invoked.
C16_Witness ==
    /\ pc = "idle" /\ ticks >= 1 /\ log = <<>>
    /\ \E i, j \in Ids :
        /\ i < j /\ InLists(i) /\ InLists(j)
        /\ items[i].func = items[j].func
        /\ hist[i].calls >= 1
        /\ hist[j].tick >= 1 /\ hist[j].phase = "idle"
        /\ IsOneShot(j) /\ items[j].next_ts <= now
        /\ hist[j].calls = 0

\* ------------------------------------------------------------ C17

\* The call has reached its second loop without an every-tick item, and no
\* item of the timed list is due at the recorded time (none can be while no
\* time has been recorded).
NothingDue ==
    /\ pc = "timed" /\ idx = 1
    /\ every0 = <<>>
    /\ \A i \in Range(TimedWalk) : last_ts = None \/ items[i].next_ts > last_ts

\* C17: call_scheduled_functions(dt) returns True if and only if it invoked
\* at least one scheduled entry.  Every call returns; what it returns is TRUE
\* exactly when a host callback was invoked; and with no every-tick item and
\* no timed item due at the recorded time (also before any tick, with a
\* one-shot queued that is not yet due) the call invokes nothing and goes on
\* to return FALSE.
C17_CallReturnsWhetherInvoked ==
    /\ outcome # "raised"
    /\ (pc = "idle" /\ outcome = "returned") =>
            (result <=> \E k \in 1..Len(log) : log[k].func # Dummy)
    /\ NothingDue => (TimedLoopOver /\ ~result /\ log = <<>>)

\* C17's case: call_scheduled_functions was called before the first tick with
\* a one-shot queued that is not yet due, and the call has ended.
C17_Witness ==
    /\ pc = "idle" /\ outcome # "none"
    /\ last_ts = None
    /\ every0 = <<>> /\ timed0 # <<>>
    /\ \A i \in Range(timed0) : IsOneShot(i) /\ items[i].next_ts > now

\* ------------------------------------------------------------ C18

\* Item i is still queued and has not been invoked in the call that ended.
LeftOut(i) == InLists(i) /\ Invoked(log, i) = 0

IsNumber(r, v) == r.num = v * r.den

\* C19: get_interval() returns 0 before any tick; after ticks it returns the
\* arithmetic mean of the dt values held in the history, so when the second
\* or a later tick of a run at the fixed step h has returned, it returns h.
C19_GetInterval ==
    /\ last_ts = None => IsNumber(get_interval, 0)
    /\ (pc = "idle" /\ times # <<>>) => IsNumber(get_interval, Sum(times) \div Len(times))
    /\ (pc = "idle" /\ ticks >= 2 /\ last_ts = now) =>
            \A h \in FixedSteps : IsStep(h, ticks) => IsNumber(get_interval, h)

\* C19's case: the second tick of a run at a fixed step has returned that
\* step as its dt.
C19_Witness ==
    /\ pc = "idle" /\ ticks >= 2 /\ last_ts = now
    /\ delta_t \in FixedSteps
    /\ IsStep(delta_t, ticks)

\* ------------------------------------------------------------ C20

\* The items of list s that were registered for f.
EntriesOf(f, s) == {i \in Range(s) : hist[i].func = f}

\* C20: duplicate registrations are independent entries.  Wherever a caller
\* can run, each scheduling call for f adds one entry for f, whatever is
\* registered already, and one unschedule(f) leaves none; and when a tick has
\* returned, every entry of f that was in the every-tick list when the tick
\* began and has not been unscheduled was invoked once, every such entry of
\* the timed list was invoked once or, if not invoked, is not due.
C20_DuplicatesAreIndependent ==
    /\ HostRuns =>
        /\ \A act \in Creators :
            LET q2 == Exec(Q, act) IN
            /\ Len(q2.items) = Len(items) + 1
            /\ Cardinality(Matched(q2, act.f)) = Cardinality(Matched(Q, act.f)) + 1
        /\ \A f \in Funcs : Matched(unschedule(Q, f), f) = {}
    /\ (pc = "idle" /\ outcome = "returned") =>
        \A f \in Funcs :
            /\ \A i \in EntriesOf(f, every0) : ~IsCancelled(i) => Invoked(log, i) = 1
            /\ \A i \in EntriesOf(f, timed0) :
                ~IsCancelled(i) =>
                    \/ Invoked(log, i) = 1
                    \/ Invoked(log, i) = 0 /\ items[i].next_ts > last_ts

\* C20's case: a callback registered twice, in the same list, was invoked
\* once for each entry by the tick that has returned; both entries are still
\* queued for one unschedule to remove.
C20_Witness ==
    /\ pc = "idle" /\ outcome = "returned"
    /\ \E f \in Funcs : \E i, j \in Matched(Q, f) :
        /\ i < j
        /\ items[i].timed = items[j].timed
        /\ {i, j} \subseteq Range(every0) \cup Range(timed0)
        /\ Invoked(log, i) = 1 /\ Invoked(log, j) = 1
        /\ Len(log) = 2

\* ------------------------------------------------------------ C21

\* The step is a pass of the timed loop that invokes a host callback.
TimedFiring ==
    /\ pc = "timed" /\ Len(log') = Len(log) + 1
    /\ log'[Len(log')].func # Dummy

\* The item the timed loop is at, and the dt the step passes to it.
AtItem == snap[idx]
PassedDt == log'[Len(log')].dt

\* The time item i last fired at, or the basis it was scheduled from.
PreviousFiring(i) == IF hist[i].calls = 0 THEN hist[i].basis ELSE hist[i].prev

C22_TickPollTicks ==
    [][ManualTickPoll => (ManualTickBegin /\ outcome' # "Depreciated")]_vars

\* C22's case: a time is recorded, a timed entry is due at the time
\* source's value, and a call has ended by raising.
C22_Witness ==
    /\ pc = "idle" /\ outcome = "Depreciated"
    /\ last_ts # None /\ now > last_ts
    /\ \E i \in Range(schedule_interval_items) : items[i].next_ts <= now

\* ------------------------------------------------------------ C23

\* The items in the lists of the clock the host is not calling.
OtherItems == Range(clock2.every) \cup Range(clock2.timed)

\* C23: two Clock instances never share state.  No item is in a list of both
\* clocks; a step that is an operation on one clock (a scheduling call,
\* unschedule, or a step of its tick) leaves the other clock's lists, its
\* recorded time and the items in its lists as they were; and no item in a
\* list of the other clock is invoked.
C23_ClocksShareNothing ==
    [][/\ OtherItems \cap (Range(schedule_items) \cup Range(schedule_interval_items)) = {}
       /\ ~TwoSwitch =>
            /\ clock2' = clock2
            /\ \A i \in OtherItems : items'[i] = items[i]
       /\ Len(log') > Len(log) => log'[Len(log')].id \notin OtherItems]_vars

\* C23's case: both clocks held an item of the same callback, one clock has
\* ticked, and the host has then unscheduled that callback on the other.
C23_Witness ==
    /\ pc = "idle" /\ clock2.last_ts # None
    /\ \E c \in CancelledBy("host") :
        /\ Unknown(hist[c.id].func)
        /\ \E i \in OtherItems : items[i].func = hist[c.id].func

\* ------------------------------------------------------------ C24

\* The interval items the tick that has returned invoked.
FiredIntervals == {i \in Ids : IsInterval(i) /\ Invoked(log, i) >= 1}

\* C24: when a tick at time T has returned, every interval entry it fired has
\* a next_ts greater than T and at most T + interval.
C24_RearmedInFuture ==
    (pc = "idle" /\ outcome = "returned") =>
        \A i \in FiredIntervals :
            /\ items[i].next_ts > last_ts
            /\ items[i].next_ts <= last_ts + items[i].interval

\* C24's case: a tick has returned that found an interval entry late by a
\* whole period or more and fired it.
C24_Witness ==
    /\ pc = "idle" /\ outcome = "returned"
    /\ \E i \in FiredIntervals :
        /\ hist[i].calls = 1
        /\ last_ts - hist[i].next0 >= items[i].interval

\* ------------------------------------------------------------ C25

\* Values of last_ts around the cases of the re-arm of an item of interval I
\* at time T: the tentative next_ts just after T, at T, and before T by less
\* than, exactly, and more than 0.05 s.
LastTsAround(T, I) ==
    {T - I + 1, T - I, T - I - SmallMiss + 1, T - I - SmallMiss, T - I - SmallMiss - 1}

\* What C25 states of the re-arm at time T of item id, its last_ts being l.
StatedRearm(id, l, T) ==
    LET I == items[id].interval
        tentative == l + I
        rearmed == Rearm(SetItem(Q, id, l, items[id].next_ts), id, T).items[id]
        anchored == get_soft_next_ts(SetItem(Q, id, T, tentative), T, I)
    IN IF tentative > T
       THEN rearmed.next_ts = tentative /\ rearmed.last_ts = T
       ELSE IF T - tentative < SmallMiss
            THEN rearmed.next_ts = T + I /\ rearmed.last_ts = T
            ELSE rearmed.next_ts = anchored /\ rearmed.last_ts = anchored - I

\* C25: an interval entry that fires at time T with tentative next_ts =
\* last_ts + interval is re-armed, if tentative <= T, with next_ts = T +
\* interval and last_ts = T when T - tentative < 0.05, and otherwise with the
\* result of the phase-distribution algorithm anchored at T and last_ts =
\* next_ts - interval; if tentative > T it keeps tentative, with last_ts = T.
\* This holds of the entry the timed loop is at, for the last_ts it has and
\* for those around the borders of the cases.
C25_RearmRule ==
    (pc = "timed" /\ ~TimedLoopOver /\ ~TimedRaises /\ IsInterval(TimedWalk[idx])) =>
        LET id == TimedWalk[idx] IN
        \A l \in {items[id].last_ts} \cup LastTsAround(last_ts, items[id].interval) :
            StatedRearm(id, l, last_ts)

\* C25's case: a tick has fired an interval entry late by 0.05 s or more while
\* another entry was queued near T + interval, and has returned: the entry
\* was placed elsewhere by the phase-distribution algorithm.
C25_Witness ==
    /\ pc = "idle" /\ outcome = "returned"
    /\ \E i \in FiredIntervals :
        /\ hist[i].soft
        /\ items[i].next_ts # last_ts + items[i].interval
        /\ items[i].last_ts = items[i].next_ts - items[i].interval

\* ------------------------------------------------------------ C26

\* No entry of the timed list of q but `self` has its next_ts within the
\* tolerance interval / (4 * divs) of v.
ClearAround(q, self, v, interval, divs) ==
    \A j \in 1..Len(q.timed) :
        LET n == q.items[q.timed[j]].next_ts IN
        (q.timed[j] # self /\ n # None) => 4 * divs * Abs(n - v) > interval

\* The search from basis lts over q, when it accepts a candidate before the
\* density guard, accepts one with no other entry within the tolerance of its level.
AcceptsClear(q, self, lts, interval) ==
    LET s == soft_search(q, lts, interval) IN
    s.divs <= MaxDivs => ClearAround(q, self, s.next_ts, interval, s.divs)

\* The timed loop is at an interval entry late by 0.05 s or more.
AtLateInterval ==
    /\ pc = "timed" /\ ~TimedLoopOver /\ ~TimedRaises
    /\ Resynced(items[TimedWalk[idx]], last_ts)

\* A call of the clock can be made now: the host's between ticks, during a
\* tick that of the callback the loop is about to invoke.
CallPoint ==
    \/ pc = "idle"
    \/ pc = "every" /\ idx <= Len(snap)
    \/ pc = "timed" /\ ~TimedLoopOver /\ ~TimedRaises

\* The search of schedule_interval_soft called now (by the host between
\* ticks, by the callback about to be invoked during one).
SoftCallAcceptsClear ==
    CallPoint =>
        \A I \in SoftIntervals \cup FixedIntervals : AcceptsClear(Q, 0, Basis, I)

\* The search of the re-arm of the entry the timed loop is at.
RearmAcceptsClear ==
    AtLateInterval =>
        LET id == TimedWalk[idx]
            I == items[id].interval
        IN AcceptsClear(SetItem(Q, id, last_ts, items[id].last_ts + I), id, last_ts, I)

\* C26: whenever the phase-distribution algorithm accepts a candidate before
\* its density guard, called by schedule_interval_soft or by the re-arm of
\* tick() after a large overshoot, no other entry of the timed queue has its
\* next_ts within the tolerance of the accepted level of the accepted value.
C26_AcceptedIsClear == SoftCallAcceptsClear /\ RearmAcceptsClear

\* C26's case: the re-arm of a late interval entry accepts a candidate of a
\* subdivision, the first candidate being taken.
C26_Witness ==
    /\ AtLateInterval
    /\ LET id == TimedWalk[idx]
           I == items[id].interval
           s == soft_search(SetItem(Q, id, last_ts, items[id].last_ts + I), last_ts, I)
       IN s.divs > 1 /\ s.divs <= MaxDivs

\* ------------------------------------------------------------ C27

\* The binary-subdivision order, in sixteenths of the interval after the
\* basis: I, I/2, I/4, 3I/4, I/8, 3I/8, 5I/8, 7I/8, I/16, 3I/16, ...
SubdivisionOrder == <<16, 8, 4, 12, 2, 6, 10, 14, 1, 3, 5, 7, 9, 11, 13, 15>>

\* Sixteen times the distance of item i's next_ts from the basis of the batch.
Sixteenths(i) == MaxDivs * (items[i].next_ts - hist[1].basis)

\* C27: starting from an empty timed queue, 16 successive
\* schedule_interval_soft calls with the same interval I and the same basis b
\* are placed in binary-subdivision order b + I, b + I/2, b + I/4, b + 3I/4,
\* b + I/8, ... and together occupy exactly the 16 points b + k * I / 16,
\* k = 1..16, each once.
C27_BinarySubdivisionOrder ==
    (SameSoftBatch /\ Len(items) <= MaxDivs) =>
        /\ \A i \in Ids : Sixteenths(i) = SubdivisionOrder[i] * items[1].interval
        /\ Len(items) = MaxDivs =>
            /\ {Sixteenths(i) : i \in Ids} = {k * items[1].interval : k \in 1..MaxDivs}
            /\ \A i, j \in Ids : i # j => items[i].next_ts # items[j].next_ts

\* C27's case: the sixteenth call of a batch has taken the last free point,
\* 15/16 of the interval after the basis.
C27_Witness ==
    /\ SameSoftBatch /\ Len(items) = MaxDivs
    /\ Sixteenths(MaxDivs) = 15 * items[1].interval

\* ------------------------------------------------------------ C28

\* The candidates of all the passes: 1, and divs - 1 at each of the
\* subdivision counts 2, 4, 8 and 16.
AllProbes == 1 + (2 - 1) + (4 - 1) + (8 - 1) + (MaxDivs - 1)

\* What C28 states of the search from basis b over the queue as it is.
BoundedSearch(b, I) ==
    LET s == soft_search(Q, b, I) IN
    /\ s.probes <= AllProbes
    /\ s.divs \in {1, 2, 4, 8, 16} \/ s.divs > MaxDivs
    /\ s.divs > MaxDivs =>
        /\ s.probes = AllProbes
        /\ s.next_ts = b + (MaxDivs - 1) * (I \div MaxDivs)
    /\ b < s.next_ts /\ s.next_ts <= b + I

\* C28: the phase-distribution algorithm terminates for every queue content
\* and every interval I > 0: it probes a bounded number of candidates, at the
\* subdivision counts 1, 2, 4, 8 and 16 only; when every probe is taken it
\* stops once the count exceeds 16 and returns the last candidate computed;
\* the value v it returns satisfies basis < v <= basis + I.
C28_SearchBounded ==
    \A I \in SoftIntervals \cup FixedIntervals :
        \A b \in {Basis} \cup (IF last_ts = None THEN {} ELSE {last_ts}) :
            BoundedSearch(b, I)

\* C28's case: every candidate of every pass is taken, and sixteen entries
\* are queued: the search of the next call stops at the guard.
C28_Witness ==
    /\ Len(schedule_interval_items) = MaxDivs
    /\ soft_search(Q, Basis, items[1].interval).divs > MaxDivs

\* ------------------------------------------------------------ C29

\* The timed loop of a tick has ended, the list is not yet filtered.
LoopEnded == pc = "timed" /\ TimedLoopOver /\ last_ts # None

\* The entries that were due when the timed loop began: those the loop has
\* passed (each was due when passed), and those left that are due (their
\* next_ts is still the one they began with).
DueAtPhaseStart ==
    {snap[k] : k \in {j \in 1..Len(snap) : j < idx \/ items[snap[j]].next_ts <= last_ts}}

\* The tick has invoked the host callback of item i.
HostFired(i) == \E e \in 1..Len(log) : log[e].id = i /\ log[e].func # Dummy

\* A callback of this tick has unscheduled item i.
UnscheduledInTick(i) == \E c \in cancelled : c.id = i /\ c.tick = ticks /\ c.by # "host"

\* No timed callback is invoked before its entry is due.
NeverEarly == TimedFiring => items[AtItem].next_ts <= last_ts

\* C29 (as stated): whenever a timed callback is invoked during a tick at
\* time T, its entry's next_ts at that moment is <= T, and every entry whose
\* next_ts was <= T at the start of the timed phase is fired in that tick.
C29_EveryDueEntryFired ==
    /\ [](LoopEnded => \A i \in DueAtPhaseStart : HostFired(i))
    /\ [][NeverEarly]_vars

\* C29 (amended): whenever a timed callback is invoked during a tick at time
\* T, its entry's next_ts at that moment is <= T, and every entry whose next_ts
\* was <= T at the start of the timed phase is fired in that tick unless a
\* callback of the tick has unscheduled it before the loop reached it.
C29_DueFiredUnlessUnscheduled ==
    /\ [](LoopEnded => \A i \in DueAtPhaseStart : HostFired(i) \/ UnscheduledInTick(i))
    /\ [][NeverEarly]_vars

\* C29's case: the timed loop has invoked a due entry, whose callback has
\* unscheduled another due entry before the loop reached it.
C29_Witness ==
    /\ LoopEnded
    /\ \E i \in DueAtPhaseStart : HostFired(i)
    /\ \E i \in DueAtPhaseStart : ~HostFired(i) /\ UnscheduledInTick(i)

\* ------------------------------------------------------------ C30

\* In the tick's log no every-tick entry comes after a timed one, and the
\* every-tick entries come in the order of their registration.
EveryFirstInOrder ==
    \A e, f \in 1..Len(log) :
        e < f =>
            /\ items[log[e].id].timed => items[log[f].id].timed
            /\ (~items[log[e].id].timed /\ ~items[log[f].id].timed) => log[e].id < log[f].id

\* The timed loop has invoked the entries of its copy in the copy's order.
TimedInCopyOrder ==
    \A k \in 1..(idx - 1) : log[Len(log) - (idx - 1) + k].id = snap[k]

\* The entries the timed loop has not passed stand in non-decreasing order
\* of next_ts (each still has the next_ts it had when the tick began).
RestAscending ==
    \A j, k \in idx..Len(snap) :
        j < k => items[snap[j]].next_ts <= items[snap[k]].next_ts

\* Of two such entries due at the same time the one inserted first stands
\* first.
TiesInInsertionOrder ==
    \A j, k \in idx..Len(snap) :
        (/\ j < k
         /\ items[snap[j]].next_ts = items[snap[k]].next_ts
         /\ items[snap[k]].next_ts <= last_ts) => snap[j] < snap[k]

\* C30 (as stated): within one tick() every every-tick entry is fired, in
\* registration order, before any timed entry is fired; the due timed entries
\* are then fired in non-decreasing order of the next_ts they had at the start
\* of the tick, entries with equal next_ts in the order they were inserted.
C30_FiringOrder ==
    pc = "timed" =>
        /\ \A i \in Range(every0) : HostFired(i)
        /\ EveryFirstInOrder
        /\ TimedInCopyOrder /\ RestAscending /\ TiesInInsertionOrder

\* C30 (amended): within one tick() every every-tick entry that no callback
\* of the tick has unscheduled is fired, in registration order, before any
\* timed entry is fired; the due timed entries are then fired in the order
\* the timed list held them when the timed phase began, which is
\* non-decreasing in the next_ts they had at the start of the tick.
C30_FiringInListOrder ==
    pc = "timed" =>
        /\ \A i \in Range(every0) : HostFired(i) \/ UnscheduledInTick(i)
        /\ EveryFirstInOrder
        /\ TimedInCopyOrder /\ RestAscending

\* C30's case: a tick has fired an every-tick entry and then a timed entry.
C30_Witness ==
    /\ LoopEnded
    /\ \E e, f \in 1..Len(log) :
        /\ e < f
        /\ ~items[log[e].id].timed /\ log[e].func # Dummy
        /\ items[log[f].id].timed /\ log[f].func # Dummy

\* ------------------------------------------------------------ C31

\* The entries of the timed list that have an interval.
QueuedIntervals == {i \in Range(schedule_interval_items) : items[i].interval > 0}

\* C31: in every state reached by schedule_interval, schedule_interval_soft,
\* unschedule and tick, every entry of the timed queue with interval > 0 has
\* next_ts >= last_ts.
C31_NextNotBeforeLast ==
    \A i \in QueuedIntervals : items[i].next_ts >= items[i].last_ts

\* C31's case: a tick has re-armed a queued interval entry after a large
\* miss and has returned.
C31_Witness ==
    /\ pc = "idle" /\ outcome = "returned"
    /\ \E i \in QueuedIntervals :
        /\ Invoked(log, i) = 1
        /\ hist[i].soft
        /\ items[i].next_ts > items[i].last_ts

\* ------------------------------------------------------------ C32

\* The timed list stands in non-decreasing order of next_ts.
TimedListSorted ==
    \A j, k \in 1..Len(schedule_interval_items) :
        j < k => items[schedule_interval_items[j]].next_ts
                    <= items[schedule_interval_items[k]].next_ts

\* C32: between operations (no tick in progress), whatever schedule_once,
\* schedule_interval, schedule_interval_soft, unschedule and tick calls were
\* made, by the host or by callbacks during ticks, the timed queue is sorted
\* in non-decreasing next_ts order and holds no consumed one-shot, so its
\* first element is the earliest-due entry.
C32_SortedBetweenOperations ==
    pc = "idle" =>
        /\ TimedListSorted
        /\ \A i \in Range(schedule_interval_items) : items[i].next_ts # None
        /\ schedule_interval_items # <<>> =>
                items[schedule_interval_items[1]].next_ts = SmallestNextTs

\* C32's case: a tick has fired an interval entry whose callback has
\* scheduled an entry behind it; re-armed, the interval entry now stands
\* behind the new one.
C32_Witness ==
    /\ pc = "idle" /\ outcome = "returned"
    /\ Len(schedule_interval_items) = 2
    /\ LET new == schedule_interval_items[1]
           old == schedule_interval_items[2]
       IN /\ hist[new].phase = "timed" /\ hist[new].tick = ticks
          /\ old < new
          /\ Invoked(log, old) = 1
          /\ items[old].next_ts > items[new].next_ts

\* ------------------------------------------------------------ C33

\* A one-shot that has fired.
Consumed(i) == IsOneShot(i) /\ hist[i].calls >= 1

\* The items created for f by a callback, and the invocations of f's items.
BornOf(f) == {i \in Ids : hist[i].func = f /\ hist[i].phase # "idle"}

RECURSIVE CallsOf(_, _)
CallsOf(f, n) ==
    IF n = 0 THEN 0
    ELSE (IF hist[n].func = f THEN hist[n].calls ELSE 0) + CallsOf(f, n - 1)

\* The entries of f now queued.
QueuedOf(f) == {i \in Ids : hist[i].func = f /\ InLists(i)}

\* Between operations the lists hold the items created and neither
\* unscheduled nor consumed, each once.
HeldAreLive ==
    pc = "idle" =>
        /\ \A i \in Ids : InLists(i) <=> (~IsCancelled(i) /\ ~Consumed(i))
        /\ Len(schedule_items) + Len(schedule_interval_items)
                = Cardinality(Range(schedule_items) \cup Range(schedule_interval_items))

Armed(i, k) ==
    /\ i \in Ids /\ items[i].timed /\ InLists(i)
    /\ hist[i].calls = k
    /\ k > 0 => IsInterval(i)

\* The run's last tick has returned at a time at which entry i was not due.
NotDueAtLastTick(i) ==
    /\ pc = "idle" /\ ticks = GrowTicks
    /\ items[i].next_ts > last_ts

\* Entry i has fired more than k times, or was unscheduled, or the run ended
\* before it was due.
Served(i, k) ==
    /\ i \in Ids
    /\ hist[i].calls > k \/ IsCancelled(i) \/ NotDueAtLastTick(i)

\* C34: if tick() is called again and again and the time source grows, every
\* timed entry that is never unscheduled is eventually fired, and every such
\* entry with interval > 0 is fired again after every firing, also after a
\* stall in which several of its periods elapsed within one tick.  In a run
\* of GrowTicks ticks: a queued entry that has fired k times is fired once
\* more or unscheduled, unless the last tick of the run came before it was
\* due (stated of the first GrowFirst + GrowTicks items created, those that
\* can come due before the run's last tick).
C34_EventuallyFired ==
    \A i \in 1..(GrowFirst + GrowTicks), k \in 0..(GrowTicks - 1) :
        Armed(i, k) ~> Served(i, k)

\* C34's case: an interval entry has fired in a tick that came a period or
\* more after it was due, and has fired again, in time, in a later tick.
C34_Witness ==
    /\ pc = "idle"
    /\ \E i \in Ids :
        /\ IsInterval(i) /\ InLists(i)
        /\ hist[i].tick = 0
        /\ hist[i].calls = 2
        /\ ~hist[i].soft
        /\ hist[i].prev >= hist[i].next0 + 2 * items[i].interval

\* ------------------------------------------------------------ C35

\* The interval of an interval or soft-interval entry, the delay of a
\* one-shot (its first next_ts minus the basis it was scheduled from).
IntervalOrDelay(i) ==
    IF items[i].interval # 0 THEN items[i].interval
    ELSE hist[i].next0 - hist[i].basis

\* Every queued entry with an interval has next_ts = last_ts + interval.
OnePeriodAhead ==
    \A i \in QueuedIntervals : items[i].next_ts = items[i].last_ts + items[i].interval

C36_SleepTimeNeverFails ==
    LET r == get_sleep_time(Q) IN
    CallPoint =>
        /\ ~r.raised
        /\ r.value = None \/ r.value >= 0

\* C36's case: the timed loop is about to invoke a callback after a one-shot
\* that stands first in the timed list has fired in the same tick, and a
\* call get_sleep_time() by that callback raises.
C36_Witness ==
    /\ pc = "timed" /\ CallPoint /\ idx > 1
    /\ items[snap[idx]].func # Dummy
    /\ schedule_interval_items # <<>>
    /\ items[schedule_interval_items[1]].interval = 0
    /\ Invoked(log, schedule_interval_items[1]) = 1
    /\ items[schedule_interval_items[1]].next_ts = None
    /\ get_sleep_time(Q).raised

\* ------------------------------------------------------------ C37

\* The entries schedule_interval(f, 0) creates: timed, interval 0, next_ts
\* at the basis (schedule_once(f, 0) creates the same item).
ZeroShots ==
    {i \in Ids : items[i].timed /\ items[i].interval = 0 /\ hist[i].next0 = hist[i].basis}

\* A tick has returned.
TickOver == pc = "idle" /\ ticks > 0 /\ outcome = "returned"

\* Entry i was created by the host after the last tick.
MadeAfterTick(i) == hist[i].tick = ticks /\ hist[i].phase = "idle"

\* Entry i was created by a callback that the timed loop of the last tick
\* invoked.
MadeInTimedLoop(i) == hist[i].tick = ticks /\ hist[i].phase = "timed"

\* Entry i has been fired once and is in no list.
FiredAndGone(i) == hist[i].calls = 1 /\ ~InLists(i)

\* No such entry is called twice, and one that was called is in no list
\* between ticks.
ZeroShotsOnce ==
    \A i \in ZeroShots :
        /\ hist[i].calls <= 1
        /\ (pc = "idle" /\ hist[i].calls = 1) => ~InLists(i)

C38_HistoryBoundedAndConsistent ==
    /\ Len(times) <= WindowSize
    /\ cumulative_time = Sum(times)

\* C38's case: update_time has measured a dt other than 0, put it into the
\* history and evicted the value that exceeded the window.
C38_Witness ==
    /\ ticks = 2 /\ last_ts = now
    /\ delta_t > 0
    /\ Len(times) = WindowSize
    /\ cumulative_time = 0

====
